---- MODULE Spec2Model ----
(***************************************************************************)
(* Model of arondina::vctr::Vector<int> (include/vector.h): the owning     *)
(* buffer of a Vector, its constructors, assignments and destructor, the   *)
(* bounds-checked operator[], operator+ / operator- and dot_product with   *)
(* their sequential and data-parallel (std::execution::par) paths.         *)
(*                                                                         *)
(* The free store is modelled explicitly: every new T[n] appends a buffer  *)
(* to heap, every delete[] counts a release of the buffer it is given.     *)
(* Two specifications share the state:                                     *)
(*   Spec      - construction, copy, move, assignment, destruction and     *)
(*               indexed access on the Vectors a and b;                    *)
(*   SpecArith - operator+, operator- and dot_product on two Vectors a     *)
(*               and b drawn from a bounded set, result holding the value  *)
(*               returned by operator+ / operator-.                        *)
(***************************************************************************)
EXTENDS Integers, Sequences, FiniteSets, TLC

VARIABLES vec, heap, last, call

vars == <<vec, heap, last, call>>

(***************************************************************************)
(* Bounds of the model.                                                    *)
(***************************************************************************)
\* longest initializer list / largest size given to a constructor in Spec
MaxListLen == 2
\* largest dimensions of the operands of SpecArith
MaxDim == 4
\* number of new T[n] the model follows in Spec
MaxAllocs == 3
\* width of size_t in the model (64 in the build; TLC integers have 32 bits)
SIZE_WIDTH == 8
\* width of int, the element type T of the Vectors, in the model (32 in the
\* build)
INT_WIDTH == 8
\* limit_size_for_parallelization, vector.h:373, :416, :458 (1000 in the
\* source; scaled so that operands above the limit can be enumerated)
limit_size_for_parallelization == 2

\* largest number of partitions the parallel execution policy makes
MaxParts == 3

\* element values given to constructors and written through operator[]
Vals == {1, 2}

(***************************************************************************)
(* Program constants.                                                      *)
(***************************************************************************)
nullptr == 0

SIZE_MAX == 2^SIZE_WIDTH - 1

\* unsigned arithmetic on size_t
SizeT(x) == x % (SIZE_MAX + 1)

\* what() of the std::runtime_error thrown by operator[]
OutOfBoundsMsg == "index out of bounds."
\* UnequalSizesMsg with the text dot_product uses
UnequalSizesMsg_AsDot == "cannot dot_product 2 different sizes."
\* what() of the std::runtime_error thrown by operator+ and operator-
UnequalSizesMsg == "unequal vector sizes."
\* what() of the std::runtime_error thrown by dot_product
DotSizesMsg == "cannot dot_product 2 different sizes."

\* the Vectors of the program: a and b are the caller's, result is the
\* Vector a caller initializes from a + b or a - b, diff the one it
\* initializes from result - b
Operands == {"a", "b"}
Slots == Operands \cup {"result", "diff"}

\* std::initializer_list<T> values given to Vector(std::initializer_list<T>)
ListsUpTo(n) == UNION {[1..k -> Vals] : k \in 0..n}

\* a Vector whose lifetime has not begun or has ended
NoVector == [live |-> FALSE, m_dimensions |-> 0, m_data |-> nullptr]

\* no call of operator+, operator- or dot_product is running
NoCall == [active |-> FALSE, op |-> "none", dst |-> "none", lhs |-> "none", rhs |-> "none",
           m_dimensions |-> 0, m_data |-> nullptr, pending |-> {}, acc |-> 0]

\* the null Iterator: m_ptr as the buffer pointed into and the offset in it
NoIterator == [buf |-> nullptr, off |-> 0]

\* what the last call did: its operands, how it ended (value returned or
\* what() of the exception thrown); frac tells that a double returned has a
\* fractional part (value is then its integral part), m_ptr is the Iterator
\* returned
NoLast == [op |-> "none", dst |-> "none", src |-> "none", index |-> 0,
           outcome |-> "none", what |-> "", value |-> 0, path |-> "none",
           frac |-> FALSE, m_ptr |-> NoIterator]

(***************************************************************************)
(* The free store.  heap[b] is the b-th buffer obtained from new T[n]:     *)
(* cells are its elements, indet the indices never written (default-       *)
(* initialized int: indeterminate value), released the number of           *)
(* delete[] applied to it.                                                 *)
(***************************************************************************)
\* new T[n], elements default-initialized
NewBuffer(n) == [cells |-> [i \in 1..n |-> 0], indet |-> 1..n, released |-> 0]

\* new T[n] followed by filling every element from the sequence s
NewBufferFrom(s, indet) == [cells |-> s, indet |-> indet, released |-> 0]

\* delete[] p; deleting a null pointer does nothing
DeleteArray(h, p) ==
    IF p = nullptr THEN h
    ELSE [h EXCEPT ![p].released = @ + 1, ![p].cells = <<>>, ![p].indet = {}]

\* the elements a Vector owns, as the sequence m_data[0 .. m_dimensions-1]
Elems(v, h) == IF v.m_data = nullptr THEN <<>> ELSE h[v.m_data].cells

Indet(v, h) == IF v.m_data = nullptr THEN {} ELSE h[v.m_data].indet

\* CopyOf with a copy loop that stops one element early
CopyOf_ShortLoop(rhs, h) ==
    NewBufferFrom([i \in DOMAIN Elems(rhs, h) |->
                      IF i < Len(Elems(rhs, h)) THEN Elems(rhs, h)[i] ELSE 0],
                  Indet(rhs, h) \cup ({Len(Elems(rhs, h))} \ {0}))

\* new T[rhs.dimensions()] filled with the elements of rhs: std::copy of
\* vector.h:168, the loop of vector.h:203-206
CopyOf(rhs, h) == NewBufferFrom(Elems(rhs, h), Indet(rhs, h))

\* the values an int of indeterminate value can turn out to hold
Garbage == Vals \cup {0}

\* the values a read of m_data[index] can produce: the element when it was
\* written, any value when it is indeterminate
ReadValues(v, h, index) ==
    IF (index + 1) \in Indet(v, h) THEN Garbage ELSE {Elems(v, h)[index + 1]}

Live(s) == vec[s].live

CanAllocate == Len(heap) < MaxAllocs

Done(op, dst, src) ==
    [NoLast EXCEPT !.op = op, !.dst = dst, !.src = src, !.outcome = "returned"]

(***************************************************************************)
(* Constructors, vector.h:125-183.                                         *)
(***************************************************************************)
\* Vector(std::initializer_list<T> list), vector.h:125-130
CtorList(s, list) ==
    /\ ~Live(s) /\ CanAllocate /\ ~call.active
    /\ heap' = Append(heap, NewBufferFrom(list, {}))
    /\ vec' = [vec EXCEPT ![s] = [live |-> TRUE, m_dimensions |-> Len(list),
                                  m_data |-> Len(heap) + 1]]
    /\ last' = Done("ctor_list", s, "none")
    /\ UNCHANGED call

\* Vector(size_t dimensions, T default_value), vector.h:138-146
CtorFill(s, dimensions, default_value) ==
    /\ ~Live(s) /\ CanAllocate /\ ~call.active
    /\ heap' = Append(heap, NewBufferFrom([i \in 1..dimensions |-> default_value], {}))
    /\ vec' = [vec EXCEPT ![s] = [live |-> TRUE, m_dimensions |-> dimensions,
                                  m_data |-> Len(heap) + 1]]
    /\ last' = Done("ctor_fill", s, "none")
    /\ UNCHANGED call

\* Vector(size_t dimensions), vector.h:153-157: new T[dimensions] and nothing else
CtorSize(s, dimensions) ==
    /\ ~Live(s) /\ CanAllocate /\ ~call.active
    /\ heap' = Append(heap, NewBuffer(dimensions))
    /\ vec' = [vec EXCEPT ![s] = [live |-> TRUE, m_dimensions |-> dimensions,
                                  m_data |-> Len(heap) + 1]]
    /\ last' = [Done("ctor_size", s, "none") EXCEPT !.index = dimensions]
    /\ UNCHANGED call

\* Vector(const Vector<T>& rhs), vector.h:164-169
CopyCtor(s, rhs) ==
    /\ ~Live(s) /\ Live(rhs) /\ CanAllocate /\ ~call.active
    /\ heap' = Append(heap, CopyOf(vec[rhs], heap))
    /\ vec' = [vec EXCEPT ![s] = [live |-> TRUE, m_dimensions |-> vec[rhs].m_dimensions,
                                  m_data |-> Len(heap) + 1]]
    /\ last' = Done("copy_ctor", s, rhs)
    /\ UNCHANGED call

\* Vector(Vector<T>&& rhs), vector.h:177-183
MoveCtor(s, rhs) ==
    /\ ~Live(s) /\ Live(rhs) /\ ~call.active
    /\ vec' = [vec EXCEPT ![s] = [live |-> TRUE, m_dimensions |-> vec[rhs].m_dimensions,
                                  m_data |-> vec[rhs].m_data],
                          ![rhs] = [live |-> TRUE, m_dimensions |-> 0, m_data |-> nullptr]]
    /\ last' = Done("move_ctor", s, rhs)
    /\ UNCHANGED <<heap, call>>

(***************************************************************************)
(* Assignments and destructor, vector.h:191-240.                           *)
(***************************************************************************)
\* CopyAssignHeap without the delete[] of the buffer being replaced
CopyAssignHeap_NoDelete(h, dst, rhs) == Append(h, CopyOf(rhs, h))

\* the free store after the body of operator=(const Vector<T>&) for this != &rhs
CopyAssignHeap(h, dst, rhs) == Append(DeleteArray(h, dst.m_data), CopyOf(rhs, h))

\* the self test without effect: no two objects are taken for the same
IsSelf_Never(dst, rhs) == FALSE

\* this == &rhs, the negation of the test that guards both assignment
\* operators, vector.h:193 and :219
IsSelf(dst, rhs) == dst = rhs

\* Vector<T>& operator=(const Vector<T>& rhs), vector.h:191-209
CopyAssign(dst, rhs) ==
    /\ Live(dst) /\ Live(rhs) /\ ~call.active
    /\ IF ~IsSelf(dst, rhs)
       THEN /\ CanAllocate
            /\ heap' = CopyAssignHeap(heap, vec[dst], vec[rhs])
            /\ vec' = [vec EXCEPT ![dst] = [live |-> TRUE,
                                            m_dimensions |-> vec[rhs].m_dimensions,
                                            m_data |-> Len(heap) + 1]]
       ELSE UNCHANGED <<vec, heap>>
    /\ last' = Done("copy_assign", dst, rhs)
    /\ UNCHANGED call

\* MoveAssignVec without the reset of rhs
MoveAssignVec_NoReset(v, dst, rhs) ==
    [v EXCEPT ![dst] = [live |-> TRUE, m_dimensions |-> v[rhs].m_dimensions,
                        m_data |-> v[rhs].m_data]]

\* the Vectors after the body of operator=(Vector<T>&&) for this != &rhs
MoveAssignVec(v, dst, rhs) ==
    [v EXCEPT ![dst] = [live |-> TRUE, m_dimensions |-> v[rhs].m_dimensions,
                        m_data |-> v[rhs].m_data],
              ![rhs] = [live |-> TRUE, m_dimensions |-> 0, m_data |-> nullptr]]

\* Vector<T>& operator=(Vector<T>&& rhs), vector.h:217-232
MoveAssign(dst, rhs) ==
    /\ Live(dst) /\ Live(rhs) /\ ~call.active
    /\ IF ~IsSelf(dst, rhs)
       THEN /\ heap' = DeleteArray(heap, vec[dst].m_data)
            /\ vec' = MoveAssignVec(vec, dst, rhs)
       ELSE UNCHANGED <<vec, heap>>
    /\ last' = Done("move_assign", dst, rhs)
    /\ UNCHANGED call

\* ~Vector(), vector.h:237-240
Dtor(s) ==
    /\ Live(s) /\ ~call.active
    /\ heap' = DeleteArray(heap, vec[s].m_data)
    /\ vec' = [vec EXCEPT ![s] = NoVector]
    /\ last' = Done("dtor", s, "none")
    /\ UNCHANGED call

(***************************************************************************)
(* Indexed access, vector.h:305-325.                                       *)
(***************************************************************************)
\* IndexRejected with the test index > m_dimensions
IndexRejected_OffByOne(index, m_dimensions) == index > m_dimensions

\* the test of operator[]: index > m_dimensions - 1, both of type size_t
IndexRejected(index, m_dimensions) == index > SizeT(m_dimensions - 1 + SIZE_MAX + 1)

\* m_data[index] designates an element of the buffer the Vector owns
InBuffer(v, h, index) == v.m_data # nullptr /\ index < Len(h[v.m_data].cells)

\* const T& operator[](size_t index) const, vector.h:318-325, read of the
\* result.  An access outside the buffer is undefined: it yields any value
\* or ends the program.
IndexRead(s, index) ==
    /\ Live(s) /\ ~call.active
    /\ IF IndexRejected(index, vec[s].m_dimensions)
       THEN last' = [NoLast EXCEPT !.op = "index_read", !.dst = s, !.index = index,
                                   !.outcome = "threw", !.what = OutOfBoundsMsg]
       ELSE IF InBuffer(vec[s], heap, index)
       THEN \E x \in ReadValues(vec[s], heap, index) :
                last' = [NoLast EXCEPT !.op = "index_read", !.dst = s, !.index = index,
                                       !.outcome = "returned", !.value = x]
       ELSE \/ \E x \in Garbage :
                last' = [NoLast EXCEPT !.op = "index_read", !.dst = s, !.index = index,
                                       !.outcome = "returned", !.value = x]
            \/ last' = [NoLast EXCEPT !.op = "index_read", !.dst = s, !.index = index,
                                      !.outcome = "crashed"]
    /\ UNCHANGED <<vec, heap, call>>

\* T& operator[](size_t index), vector.h:305-312, and an assignment of x
\* through the reference it returns.  A write outside the buffer is
\* undefined: the Vectors of the model are left as they are.
IndexWrite(s, index, x) ==
    /\ Live(s) /\ ~call.active
    /\ IF IndexRejected(index, vec[s].m_dimensions)
       THEN /\ last' = [NoLast EXCEPT !.op = "index_write", !.dst = s, !.index = index,
                                      !.outcome = "threw", !.what = OutOfBoundsMsg]
            /\ UNCHANGED heap
       ELSE IF InBuffer(vec[s], heap, index)
       THEN /\ heap' = [heap EXCEPT ![vec[s].m_data].cells[index + 1] = x,
                                    ![vec[s].m_data].indet = @ \ {index + 1}]
            /\ last' = [NoLast EXCEPT !.op = "index_write", !.dst = s, !.index = index,
                                      !.outcome = "returned", !.value = x]
       ELSE /\ last' = [NoLast EXCEPT !.op = "index_write", !.dst = s, !.index = index,
                                      !.outcome = "undefined"]
            /\ UNCHANGED heap
    /\ UNCHANGED <<vec, call>>

\* the indices given to operator[]: every index of the largest Vector, the
\* first one past its end, and the largest size_t
Indices == 0..MaxListLen \cup {SIZE_MAX}

(***************************************************************************)
(* Specification of construction, ownership and access.                    *)
(***************************************************************************)
Init ==
    /\ vec = [s \in Slots |-> NoVector]
    /\ heap = <<>>
    /\ last = NoLast
    /\ call = NoCall

Next ==
    \/ \E s \in Operands, list \in ListsUpTo(MaxListLen) : CtorList(s, list)
    \/ \E s \in Operands, n \in 0..MaxListLen, d \in Vals : CtorFill(s, n, d)
    \/ \E s \in Operands, n \in 0..MaxListLen : CtorSize(s, n)
    \/ \E s \in Operands, rhs \in Operands : CopyCtor(s, rhs)
    \/ \E s \in Operands, rhs \in Operands : MoveCtor(s, rhs)
    \/ \E dst \in Operands, rhs \in Operands : CopyAssign(dst, rhs)
    \/ \E dst \in Operands, rhs \in Operands : MoveAssign(dst, rhs)
    \/ \E s \in Operands : Dtor(s)
    \/ \E s \in Operands, index \in Indices : IndexRead(s, index)
    \/ \E s \in Operands, index \in Indices, x \in Vals : IndexWrite(s, index, x)

Spec == Init /\ [][Next]_vars

(***************************************************************************)
(* operator+ and operator-, vector.h:362-437.                              *)
(***************************************************************************)
\* the range of int
INT_MAX == 2^(INT_WIDTH - 1) - 1
INT_MIN == -INT_MAX - 1

\* int arithmetic that stops at INT_MIN and INT_MAX
WrapInt_Saturating(x) ==
    IF x > INT_MAX THEN INT_MAX ELSE IF x < INT_MIN THEN INT_MIN ELSE x

\* the int an addition or subtraction of two ints leaves: a result out of
\* [INT_MIN, INT_MAX] is a signed overflow, for which the add and sub
\* instructions of the build leave the two's complement value
WrapInt(x) == ((x - INT_MIN) % 2^INT_WIDTH) + INT_MIN

\* BinaryOp with the operands of the subtraction exchanged
BinaryOp_Swapped(op, x, y) == IF op = "+" THEN x + y ELSE y - x

\* the lambdas given to std::transform, vector.h:383, :390, :426, :433
BinaryOp(op, x, y) == IF op = "+" THEN WrapInt(x + y) ELSE WrapInt(x - y)

\* the test that opens operator+, operator- and dot_product
SizesDiffer(lhs, rhs) == rhs.m_dimensions # lhs.m_dimensions

\* the choice of execution path, vector.h:376, :419, :459
UsesParallelPath(m_dimensions) == m_dimensions > limit_size_for_parallelization

\* std::transform over the elements first .. last-1 (0-based) of two
\* buffers into the buffer out
TransformRange(op, A, B, out, first, lst) ==
    [out EXCEPT !.cells = [i \in DOMAIN out.cells |->
                              IF first < i /\ i <= lst THEN BinaryOp(op, A.cells[i], B.cells[i])
                              ELSE out.cells[i]],
                !.indet = (out.indet \ ((first + 1)..lst))
                          \cup (((first + 1)..lst) \cap (A.indet \cup B.indet))]

\* the ways std::execution::par can split n elements into contiguous
\* partitions <<first, last>>, at most MaxParts of them
RangesOf(cuts, n) ==
    {r \in (({0} \cup cuts) \X (cuts \cup {n})) :
        r[1] < r[2] /\ \A c \in cuts : ~(r[1] < c /\ c < r[2])}

Partitionings(n) ==
    {RangesOf(cuts, n) : cuts \in {c \in SUBSET (1..(n - 1)) : Cardinality(c) < MaxParts}}

Threw(op, lhs, rhs, what) ==
    [NoLast EXCEPT !.op = op, !.dst = lhs, !.src = rhs, !.outcome = "threw", !.what = what]

\* Vector<T> operator+(const Vector<T>& rhs) and operator-, vector.h:362-437,
\* called on lhs as `Vector<T> dst = lhs op rhs;`.  On the parallel path
\* the action starts std::transform(std::execution::par, ...): the caller
\* stays inside the call until ParallelTransformReturn.
OperatorArithInto(dst, op, lhs, rhs) ==
    /\ Live(lhs) /\ Live(rhs) /\ ~Live(dst) /\ ~call.active
    /\ IF SizesDiffer(vec[lhs], vec[rhs])
       THEN /\ last' = Threw(op, lhs, rhs, UnequalSizesMsg)
            /\ UNCHANGED <<vec, heap, call>>
       ELSE /\ IF vec[lhs].m_dimensions = 0
               THEN /\ heap' = Append(heap, NewBuffer(0))
                    /\ vec' = [vec EXCEPT ![dst] =
                                  [live |-> TRUE, m_dimensions |-> 0, m_data |-> Len(heap) + 1]]
                    /\ last' = [Done(op, lhs, rhs) EXCEPT !.path = "empty"]
                    /\ UNCHANGED call
               ELSE IF UsesParallelPath(vec[lhs].m_dimensions)
               THEN /\ heap' = Append(heap, NewBuffer(vec[lhs].m_dimensions))
                    /\ \E parts \in Partitionings(vec[lhs].m_dimensions) :
                          call' = [active |-> TRUE, op |-> op, dst |-> dst,
                                   lhs |-> lhs, rhs |-> rhs,
                                   m_dimensions |-> vec[lhs].m_dimensions,
                                   m_data |-> Len(heap) + 1, pending |-> parts, acc |-> 0]
                    /\ last' = [NoLast EXCEPT !.op = op, !.dst = lhs, !.src = rhs,
                                              !.outcome = "running", !.path = "parallel"]
                    /\ UNCHANGED vec
               ELSE /\ heap' = Append(heap,
                                 TransformRange(op, heap[vec[lhs].m_data], heap[vec[rhs].m_data],
                                                NewBuffer(vec[lhs].m_dimensions),
                                                0, vec[lhs].m_dimensions))
                    /\ vec' = [vec EXCEPT ![dst] =
                                  [live |-> TRUE, m_dimensions |-> vec[lhs].m_dimensions,
                                   m_data |-> Len(heap) + 1]]
                    /\ last' = [Done(op, lhs, rhs) EXCEPT !.path = "sequential"]
                    /\ UNCHANGED call

\* Vector<T> result = lhs op rhs;
OperatorArith(op, lhs, rhs) == OperatorArithInto("result", op, lhs, rhs)

\* one partition of std::transform(std::execution::par, ...), vector.h:377-383
\* and :420-426, run by some thread of the execution policy
ParallelTransformStep(part) ==
    /\ call.active /\ call.op \in {"+", "-"} /\ part \in call.pending
    /\ heap' = [heap EXCEPT ![call.m_data] =
                   TransformRange(call.op, heap[vec[call.lhs].m_data],
                                  heap[vec[call.rhs].m_data], heap[call.m_data],
                                  part[1], part[2])]
    /\ call' = [call EXCEPT !.pending = @ \ {part}]
    /\ UNCHANGED <<vec, last>>

\* ParallelFinished that does not wait for the last partition
ParallelFinished_Early(c) == Cardinality(c.pending) <= 1

\* the parallel algorithm returns once no partition is left
ParallelFinished(c) == c.pending = {}

\* std::transform(std::execution::par, ...) has returned: `return result;`,
\* vector.h:393 and :436
ParallelTransformReturn ==
    /\ call.active /\ call.op \in {"+", "-"} /\ ParallelFinished(call)
    /\ vec' = [vec EXCEPT ![call.dst] =
                  [live |-> TRUE, m_dimensions |-> call.m_dimensions, m_data |-> call.m_data]]
    /\ last' = [Done(call.op, call.lhs, call.rhs) EXCEPT !.path = "parallel"]
    /\ call' = NoCall
    /\ UNCHANGED heap

(***************************************************************************)
(* dot_product, vector.h:451-479 (and src/vector.cpp:12-39).               *)
(***************************************************************************)
\* the loop of vector.h:473-476 over the elements first .. last-1:
\* result += (lhs[i] * rhs[i])
\* the loop with lhs[i] multiplied by itself
RECURSIVE DotLoop_SquaresLhs(_, _, _, _, _)
DotLoop_SquaresLhs(A, B, i, lst, result) ==
    IF i < lst THEN DotLoop_SquaresLhs(A, B, i + 1, lst, result + (A[i + 1] * A[i + 1]))
    ELSE result

RECURSIVE DotLoop(_, _, _, _, _)
DotLoop(A, B, i, lst, result) ==
    IF i < lst THEN DotLoop(A, B, i + 1, lst, result + (A[i + 1] * B[i + 1]))
    ELSE result

\* template<typename T> T dot_product(const Vector<T>& rhs, const Vector<T>& lhs),
\* vector.h:451-479
DotProduct(rhs, lhs) ==
    /\ Live(lhs) /\ Live(rhs) /\ ~call.active
    /\ IF SizesDiffer(vec[lhs], vec[rhs])
       THEN /\ last' = Threw("dot_product", rhs, lhs, DotSizesMsg)
            /\ UNCHANGED call
       ELSE IF UsesParallelPath(vec[lhs].m_dimensions)
       THEN /\ \E parts \in Partitionings(vec[lhs].m_dimensions) :
                  call' = [active |-> TRUE, op |-> "dot_product", dst |-> "none",
                           lhs |-> lhs, rhs |-> rhs,
                           m_dimensions |-> vec[lhs].m_dimensions, m_data |-> nullptr,
                           pending |-> parts, acc |-> 0]
            /\ last' = [NoLast EXCEPT !.op = "dot_product", !.dst = rhs, !.src = lhs,
                                      !.outcome = "running", !.path = "parallel"]
       ELSE /\ last' = [Done("dot_product", rhs, lhs) EXCEPT
                           !.value = DotLoop(Elems(vec[lhs], heap), Elems(vec[rhs], heap),
                                             0, vec[lhs].m_dimensions, 0),
                           !.path = "sequential"]
            /\ UNCHANGED call
    /\ UNCHANGED <<vec, heap>>

\* one partition of std::transform_reduce(std::execution::par, ...),
\* vector.h:461-468: the products of the partition are summed and the sum is
\* combined into the accumulated value with std::plus<>
ParallelReduceStep(part) ==
    /\ call.active /\ call.op = "dot_product" /\ part \in call.pending
    /\ call' = [call EXCEPT !.pending = @ \ {part},
                            !.acc = @ + DotLoop(Elems(vec[call.lhs], heap),
                                                Elems(vec[call.rhs], heap),
                                                part[1], part[2], 0)]
    /\ UNCHANGED <<vec, heap, last>>

\* std::transform_reduce(std::execution::par, ...) has returned its value
ParallelReduceReturn ==
    /\ call.active /\ call.op = "dot_product" /\ ParallelFinished(call)
    /\ last' = [Done("dot_product", call.rhs, call.lhs) EXCEPT
                   !.value = call.acc, !.path = "parallel"]
    /\ call' = NoCall
    /\ UNCHANGED <<vec, heap>>

(***************************************************************************)
(* Specification of the arithmetic: a and b are constructed from           *)
(* initializer lists, then operator+, operator- and dot_product are        *)
(* applied to them; result is initialized from the first sum or            *)
(* difference that returns.                                                *)
(***************************************************************************)
InitArith ==
    /\ \E la \in ListsUpTo(MaxDim), lb \in ListsUpTo(MaxDim) :
          /\ heap = <<NewBufferFrom(la, {}), NewBufferFrom(lb, {})>>
          /\ vec = [s \in Slots |->
                       IF s = "a" THEN [live |-> TRUE, m_dimensions |-> Len(la), m_data |-> 1]
                       ELSE IF s = "b" THEN [live |-> TRUE, m_dimensions |-> Len(lb), m_data |-> 2]
                       ELSE NoVector]
    /\ last = NoLast
    /\ call = NoCall

NextArith ==
    \/ \E lhs \in Operands, rhs \in Operands : OperatorArith("+", lhs, rhs)
    \/ \E lhs \in Operands, rhs \in Operands : OperatorArith("-", lhs, rhs)
    \/ \E part \in call.pending : ParallelTransformStep(part)
    \/ ParallelTransformReturn
    \/ \E rhs \in Operands, lhs \in Operands : DotProduct(rhs, lhs)
    \/ \E part \in call.pending : ParallelReduceStep(part)
    \/ ParallelReduceReturn

SpecArith == InitArith /\ [][NextArith]_vars

(***************************************************************************)
(* Properties of construction, ownership and access (under Spec).          *)
(***************************************************************************)
IndexOps == {"index_read", "index_write"}

\* C1: for a Vector of dimensions >= 1, operator[] (const and non-const)
\* returns the element at index when index < dimensions() and throws
\* std::runtime_error("index out of bounds.") when index >= dimensions();
\* the Vector is unchanged by a failed access, and by a read.
C1_Step ==
    \A s \in Operands :
        (last'.op \in IndexOps /\ last'.dst = s /\ vec[s].m_dimensions >= 1) =>
            IF last'.index < vec[s].m_dimensions
            THEN /\ last'.outcome = "returned"
                 /\ vec' = vec
                 /\ IF last'.op = "index_read"
                    THEN /\ heap' = heap
                         /\ last'.value \in ReadValues(vec[s], heap, last'.index)
                    ELSE /\ Elems(vec'[s], heap')[last'.index + 1] = last'.value
                         /\ \A i \in 1..vec[s].m_dimensions :
                               i # last'.index + 1 =>
                                   Elems(vec'[s], heap')[i] = Elems(vec[s], heap)[i]
            ELSE /\ last'.outcome = "threw"
                 /\ last'.what = "index out of bounds."
                 /\ vec' = vec /\ heap' = heap

C1_BoundsChecked == [][C1_Step]_vars

\* C1 witness: an access at index == dimensions() of a two-element Vector failed
C1_Witness ==
    /\ last.op \in IndexOps /\ last.outcome = "threw"
    /\ vec[last.dst].m_dimensions = 2 /\ last.index = 2

\* C2: on a zero-dimension Vector (empty list, size 0 or moved-from)
\* operator[] throws the out-of-bounds error for every index, 0 included,
\* and returns no element.
C2_ZeroDimRejects ==
    (last.op \in IndexOps /\ vec[last.dst].m_dimensions = 0) =>
        (last.outcome = "threw" /\ last.what = "index out of bounds.")

\* C3: after move construction or move assignment between distinct Vectors
\* the destination has the dimensions and elements the source had, and the
\* source has dimensions() == 0 and no buffer.
C3_Step ==
    \A d \in Operands, s \in Operands :
        (last'.op \in {"move_ctor", "move_assign"} /\ last'.dst = d /\ last'.src = s /\ d # s) =>
            /\ vec'[d].live /\ vec'[s].live
            /\ vec'[d].m_dimensions = vec[s].m_dimensions
            /\ Elems(vec'[d], heap') = Elems(vec[s], heap)
            /\ Len(Elems(vec'[d], heap')) = vec'[d].m_dimensions
            /\ vec'[s].m_dimensions = 0
            /\ vec'[s].m_data = nullptr

C3_MoveTransfers == [][C3_Step]_vars

\* C3 witness: a move assignment has emptied its source and filled its destination
C3_Witness ==
    /\ last.op = "move_assign" /\ last.dst # last.src
    /\ vec[last.dst].m_dimensions = 2 /\ Elems(vec[last.dst], heap) = <<1, 2>>
    /\ vec[last.src].m_dimensions = 0 /\ vec[last.src].m_data = nullptr

\* C4: after copy construction or copy assignment from src into dst, dst has
\* the dimensions and elements of src, src is unchanged, and the buffers are
\* distinct: an indexed write to one Vector changes no element of another.
C4_Step ==
    /\ \A d \in Operands, s \in Operands :
          (last'.op \in {"copy_ctor", "copy_assign"} /\ last'.dst = d /\ last'.src = s) =>
              /\ vec'[d].live
              /\ vec'[d].m_dimensions = vec[s].m_dimensions
              /\ Elems(vec'[d], heap') = Elems(vec[s], heap)
              /\ Indet(vec'[d], heap') = Indet(vec[s], heap)
              /\ vec'[s] = vec[s]
              /\ Elems(vec'[s], heap') = Elems(vec[s], heap)
              /\ d # s => vec'[d].m_data # vec'[s].m_data
    /\ \A d \in Operands, s \in Operands :
          (last'.op = "index_write" /\ last'.dst = d /\ d # s) =>
              (vec'[s] = vec[s] /\ Elems(vec'[s], heap') = Elems(vec[s], heap))

C4_CopyIndependent == [][C4_Step]_vars

\* C4 witness: a copy assignment replaced the buffer of a Vector by a copy
\* of the two elements of another Vector
C4_Witness ==
    /\ last.op = "copy_assign" /\ last.dst # last.src
    /\ vec[last.dst].m_dimensions = 2
    /\ Elems(vec[last.dst], heap) = <<2, 1>>
    /\ Elems(vec[last.src], heap) = <<2, 1>>
    /\ vec[last.dst].m_data # vec[last.src].m_data
    /\ \E p \in 1..Len(heap) : heap[p].released = 1

\* the live Vectors that own buffer p
Owners(p) == {s \in Slots : vec[s].live /\ vec[s].m_data = p}

\* C5: no buffer is owned by two live Vectors, no buffer is released twice,
\* a buffer a live Vector owns is not released, and a buffer no live Vector
\* owns has been released (exactly once); destroying a moved-from Vector
\* (m_data == nullptr) therefore releases nothing.
C5_Ownership ==
    /\ \A p \in 1..Len(heap) :
          /\ heap[p].released <= 1
          /\ Cardinality(Owners(p)) <= 1
          /\ (heap[p].released = 0) <=> (Owners(p) # {})
    /\ \A s \in Slots : vec[s].live /\ vec[s].m_data # nullptr => vec[s].m_data \in 1..Len(heap)
    /\ \A s \in Slots : ~vec[s].live => vec[s].m_data = nullptr

\* C5 witness: after moves, assignments and a destruction one Vector is
\* live and moved-from, and buffers have been released
C5_Witness ==
    /\ last.op = "dtor"
    /\ \E s \in Operands : vec[s].live /\ vec[s].m_data = nullptr
    /\ \E p \in 1..Len(heap) : heap[p].released = 1
    /\ Len(heap) >= 2

(***************************************************************************)
(* Properties of the arithmetic (under SpecArith).                         *)
(***************************************************************************)
ArithOps == {"+", "-"}

\* the operands of the call last describes
Lhs == IF last.op = "dot_product" THEN vec[last.src] ELSE vec[last.dst]
Rhs == IF last.op = "dot_product" THEN vec[last.dst] ELSE vec[last.src]

\* C6: a + b and a - b on Vectors of different dimensions throw
\* std::runtime_error("unequal vector sizes.") before any result buffer is
\* allocated or any element computed; a and b are unchanged.
C6_Step ==
    (/\ last'.op \in ArithOps
     /\ vec[last'.dst].m_dimensions # vec[last'.src].m_dimensions) =>
        /\ last'.outcome = "threw"
        /\ last'.what = "unequal vector sizes."
        /\ heap' = heap /\ vec' = vec /\ call' = call

C6_SizeMismatchRejected == [][C6_Step]_vars

\* C6 witness: a - b was rejected for a of 4 and b of 3 elements
C6_Witness ==
    /\ last.op = "-" /\ last.outcome = "threw"
    /\ last.dst = "a" /\ last.src = "b"
    /\ vec["a"].m_dimensions = 4 /\ vec["b"].m_dimensions = 3
    /\ Len(heap) = 2

\* C7: dot_product on Vectors of different dimensions throws
\* std::runtime_error("unequal vector sizes."), the message of operator+
\* and operator-, and returns no value.
C7_DotSizeMismatchMsg ==
    (last.op = "dot_product" /\ Lhs.m_dimensions # Rhs.m_dimensions) =>
        (last.outcome = "threw" /\ last.what = "unequal vector sizes.")

\* C8: dot_product on two zero-dimension Vectors throws
\* std::runtime_error("cannot dot product null vectors.") and never returns
\* a value.
C8_DotEmptyRejected ==
    (last.op = "dot_product" /\ Lhs.m_dimensions = 0 /\ Rhs.m_dimensions = 0) =>
        (last.outcome = "threw" /\ last.what = "cannot dot product null vectors.")

\* C9: for a and b of equal dimensions n >= 0, a + b and a - b do not fail
\* and return a new Vector of dimensions n whose i-th element is
\* a[i] + b[i] (a[i] - b[i]); for n = 0 the result has no element.
C9_Result ==
    /\ (last.op \in ArithOps /\ Lhs.m_dimensions = Rhs.m_dimensions) =>
          last.outcome \in {"returned", "running"}
    /\ (last.op \in ArithOps /\ last.outcome = "returned") =>
          /\ vec["result"].live
          /\ vec["result"].m_dimensions = Lhs.m_dimensions
          /\ vec["result"].m_data \notin {nullptr, Lhs.m_data, Rhs.m_data}
          /\ Len(Elems(vec["result"], heap)) = Lhs.m_dimensions
          /\ Indet(vec["result"], heap) = {}
          /\ \A i \in 1..Lhs.m_dimensions :
                Elems(vec["result"], heap)[i] =
                    IF last.op = "+"
                    THEN Elems(Lhs, heap)[i] + Elems(Rhs, heap)[i]
                    ELSE Elems(Lhs, heap)[i] - Elems(Rhs, heap)[i]

\* C9, operands: no step of a + b or a - b changes the dimensions or the
\* elements of a or b.
C9_OperandsKept ==
    \A s \in Operands : vec'[s] = vec[s] /\ Elems(vec'[s], heap') = Elems(vec[s], heap)

C9_ElementwiseResult == [][C9_OperandsKept /\ C9_Result']_vars

\* C9 witness: a - b returned for two Vectors of two different elements each
C9_Witness ==
    /\ last.op = "-" /\ last.outcome = "returned" /\ last.path = "sequential"
    /\ Elems(Lhs, heap) = <<1, 2>> /\ Elems(Rhs, heap) = <<2, 1>>
    /\ Elems(vec["result"], heap) = <<-1, 1>>

\* what the sequential path of the call last describes computes
SequentialSum ==
    TransformRange(last.op, heap[Lhs.m_data], heap[Rhs.m_data],
                   NewBuffer(Lhs.m_dimensions), 0, Lhs.m_dimensions)

SequentialDot == DotLoop(Elems(Lhs, heap), Elems(Rhs, heap), 0, Lhs.m_dimensions, 0)

\* C10: on the parallel path operator+, operator- and dot_product return
\* what the sequential path computes for the same operands, whatever the
\* partitioning and the order of the partitions, and they return only once
\* every partition has completed.
C10_SameAsSequential ==
    (last.path = "parallel" /\ last.outcome = "returned") =>
        /\ ~call.active
        /\ IF last.op = "dot_product"
           THEN last.value = SequentialDot
           ELSE /\ vec["result"].live
                /\ heap[vec["result"].m_data] = SequentialSum

C10_Step ==
    /\ (call.active /\ ~call'.active) => call.pending = {}
    /\ C10_SameAsSequential'

C10_ParallelEquivalence == [][C10_Step]_vars

\* C10 witness: a parallel a + b over operands of distinct elements returned
C10_Witness ==
    /\ last.path = "parallel" /\ last.outcome = "returned" /\ last.op = "+"
    /\ Elems(Lhs, heap) = <<1, 2, 1, 2>> /\ Elems(Rhs, heap) = <<2, 2, 1, 1>>
    /\ Elems(vec["result"], heap) = <<3, 4, 2, 3>>

\* the sum of the products x[i] * y[i] over the first n elements
RECURSIVE SumOfProducts(_, _, _)
SumOfProducts(x, y, n) ==
    IF n = 0 THEN 0 ELSE SumOfProducts(x, y, n - 1) + x[n] * y[n]

\* the two Vectors of the last dot_product, named in a fixed order whatever
\* the order they were passed in
C11_First == IF "a" \in {last.dst, last.src} THEN "a" ELSE "b"
C11_Second == IF "b" \in {last.dst, last.src} THEN "b" ELSE "a"

C11_Value ==
    /\ (last.op = "dot_product" /\ Lhs.m_dimensions = Rhs.m_dimensions
            /\ Lhs.m_dimensions >= 1) =>
          last.outcome \in {"returned", "running"}
    /\ (last.op = "dot_product" /\ last.outcome = "returned"
            /\ Lhs.m_dimensions >= 1) =>
          last.value = SumOfProducts(Elems(vec[C11_First], heap),
                                     Elems(vec[C11_Second], heap),
                                     vec[C11_First].m_dimensions)
    /\ DotLoop(<<7, 3, 9, 12>>, <<2, 8, 4, 17>>, 0, 4, 0) = 278

C11_Step ==
    /\ (last'.op = "dot_product") =>
          /\ vec' = vec
          /\ \A s \in Operands : Elems(vec'[s], heap') = Elems(vec[s], heap)
    /\ C11_Value'

\* C11: for a and b of equal dimensions n >= 1, dot_product(a, b) does not
\* fail and returns the sum over i of a[i] * b[i] (278 for [7,3,9,12] and
\* [2,8,4,17]), the same value whichever of the two is passed first, and no
\* step of it changes a or b.
C11_DotProductValue == [][C11_Step]_vars

\* C11 witness: dot_product(b, a) returned 8 for a = [1,2,2] and b = [2,2,1]
C11_Witness ==
    /\ last.op = "dot_product" /\ last.outcome = "returned"
    /\ last.dst = "b" /\ last.src = "a"
    /\ Elems(vec["a"], heap) = <<1, 2, 2>> /\ Elems(vec["b"], heap) = <<2, 2, 1>>
    /\ last.value = 8

\* ---------------------------------------------------------------------
\* comparison
\* ---------------------------------------------------------------------

\* what `(*this)[i] != rhs[i]` can evaluate to, vector.h:339
ElementsDiffer(lhs, rhs, h, i) ==
    {x # y : x \in ReadValues(lhs, h, i), y \in ReadValues(rhs, h, i)}

\* the loop of operator==, vector.h:337-343, from index i on: the outcomes
\* it can end with.  Both elements are read through operator[], which
\* throws on an index it rejects.
RECURSIVE EqLoop(_, _, _, _)
EqLoop(lhs, rhs, h, i) ==
    IF i < lhs.m_dimensions
    THEN IF IndexRejected(i, lhs.m_dimensions) \/ IndexRejected(i, rhs.m_dimensions)
         THEN {"threw"}
         ELSE (IF TRUE \in ElementsDiffer(lhs, rhs, h, i) THEN {"false"} ELSE {})
              \cup (IF FALSE \in ElementsDiffer(lhs, rhs, h, i)
                    THEN EqLoop(lhs, rhs, h, i + 1) ELSE {})
    ELSE {"true"}

\* operator== with the loop started at index 1
EqualsOutcomes_FromOne(lhs, rhs, h) ==
    IF rhs.m_dimensions # lhs.m_dimensions THEN {"false"} ELSE EqLoop(lhs, rhs, h, 1)

\* bool operator==(const Vector<T>& rhs), vector.h:331-345
EqualsOutcomes(lhs, rhs, h) ==
    IF rhs.m_dimensions # lhs.m_dimensions THEN {"false"} ELSE EqLoop(lhs, rhs, h, 0)

\* a bool as the int it converts to
BoolValue(b) == IF b THEN 1 ELSE 0

\* lhs == rhs
OperatorEq(lhs, rhs) ==
    /\ Live(lhs) /\ Live(rhs) /\ ~call.active
    /\ \E o \in EqualsOutcomes(vec[lhs], vec[rhs], heap) :
          last' = IF o = "threw" THEN Threw("==", lhs, rhs, OutOfBoundsMsg)
                  ELSE [Done("==", lhs, rhs) EXCEPT !.value = BoolValue(o = "true")]
    /\ UNCHANGED <<vec, heap, call>>

\* bool operator!=(const Vector<T>& rhs), vector.h:350-353: !(*this == rhs)
OperatorNe(lhs, rhs) ==
    /\ Live(lhs) /\ Live(rhs) /\ ~call.active
    /\ \E o \in EqualsOutcomes(vec[lhs], vec[rhs], heap) :
          last' = IF o = "threw" THEN Threw("!=", lhs, rhs, OutOfBoundsMsg)
                  ELSE [Done("!=", lhs, rhs) EXCEPT !.value = BoolValue(~(o = "true"))]
    /\ UNCHANGED <<vec, heap, call>>

\* two Vectors built from lists, moved into one another and compared
NextCompare ==
    \/ \E dst \in Operands, rhs \in Operands : MoveAssign(dst, rhs)
    \/ \E lhs \in Operands, rhs \in Operands : OperatorEq(lhs, rhs)
    \/ \E lhs \in Operands, rhs \in Operands : OperatorNe(lhs, rhs)

SpecCompare == InitArith /\ [][NextCompare]_vars

\* same dimensions and the same element at every index
C12_SameElements(x, y) ==
    /\ x.m_dimensions = y.m_dimensions
    /\ \A i \in 1..x.m_dimensions : Elems(x, heap)[i] = Elems(y, heap)[i]

\* C12: a == b returns true exactly when a and b have equal dimensions and
\* equal elements at every index (zero-dimension and moved-from Vectors
\* included); with different dimensions it returns false and never throws;
\* a == b and b == a give the same result, and a != b returns the negation
\* of a == b.
C12_Equality ==
    /\ (last.op \in {"==", "!="}) =>
          /\ last.outcome = "returned"
          /\ last.value \in {0, 1}
          /\ (last.value = 1) <=> (C12_SameElements(Lhs, Rhs) <=> (last.op = "=="))
    /\ \A x \in Operands, y \in Operands :
          /\ EqualsOutcomes(vec[x], vec[y], heap) = EqualsOutcomes(vec[y], vec[x], heap)
          /\ EqualsOutcomes(vec[x], vec[y], heap) \in {{"true"}, {"false"}}

\* C12 witness: a == b returned false for Vectors differing in the last
\* element only
C12_Witness ==
    /\ last.op = "==" /\ last.outcome = "returned" /\ last.value = 0
    /\ Elems(Lhs, heap) = <<1, 2, 1>> /\ Elems(Rhs, heap) = <<1, 2, 2>>

\* ---------------------------------------------------------------------
\* (a + b) - b
\* ---------------------------------------------------------------------

\* initializer lists of up to n elements of the set vals
ListsOver(vals, n) == UNION {[1..k -> vals] : k \in 0..n}

\* Vector<int> a{...}, b{...}; the elements of b reach INT_MAX, the
\* dimensions reach the parallel path
InitInverse ==
    /\ \E la \in ListsOver(Vals, limit_size_for_parallelization + 1),
          lb \in ListsOver({1, INT_MAX}, limit_size_for_parallelization + 1) :
          /\ heap = <<NewBufferFrom(la, {}), NewBufferFrom(lb, {})>>
          /\ vec = [s \in Slots |->
                       IF s = "a" THEN [live |-> TRUE, m_dimensions |-> Len(la), m_data |-> 1]
                       ELSE IF s = "b" THEN [live |-> TRUE, m_dimensions |-> Len(lb), m_data |-> 2]
                       ELSE NoVector]
    /\ last = NoLast
    /\ call = NoCall

\* Vector<int> result = a + b; Vector<int> diff = result - b; diff == a;
NextInverse ==
    \/ OperatorArithInto("result", "+", "a", "b")
    \/ OperatorArithInto("diff", "-", "result", "b")
    \/ \E part \in call.pending : ParallelTransformStep(part)
    \/ ParallelTransformReturn
    \/ OperatorEq("diff", "a")

SpecInverse == InitInverse /\ [][NextInverse]_vars

\* C13: for int Vectors a and b of equal dimensions, (a + b) - b is a
\* Vector with the dimensions and the elements of a, and
\* (a + b) - b == a returns true.
C13_AddSubtractInverse ==
    /\ vec["diff"].live =>
          /\ vec["diff"].m_dimensions = vec["a"].m_dimensions
          /\ Indet(vec["diff"], heap) = {}
          /\ Elems(vec["diff"], heap) = Elems(vec["a"], heap)
    /\ (last.op = "==") => (last.outcome = "returned" /\ last.value = 1)
    /\ (vec["a"].m_dimensions = vec["b"].m_dimensions) => last.outcome # "threw"

\* C13 witness: (a + b) - b == a returned true where two of the three
\* sums overflowed
C13_Witness ==
    /\ last.op = "==" /\ last.dst = "diff" /\ last.src = "a" /\ last.value = 1
    /\ Elems(vec["a"], heap) = <<1, 2, 1>>
    /\ Elems(vec["b"], heap) = <<INT_MAX, 1, INT_MAX>>
    /\ Elems(vec["result"], heap) = <<INT_MIN, 3, INT_MIN>>

\* C14: Vector(n) yields dimensions n with every element equal to zero: no
\* element of the new Vector has an unspecified value, a read of any of
\* them gives 0.
C14_ZeroInitialized ==
    (last.op = "ctor_size") =>
        /\ vec[last.dst].m_dimensions = last.index
        /\ Len(Elems(vec[last.dst], heap)) = last.index
        /\ Indet(vec[last.dst], heap) = {}
        /\ \A i \in 1..last.index : ReadValues(vec[last.dst], heap, i - 1) = {0}

\* the Vector last assigned owns its buffer, alone and not released
C15_StillOwner ==
    (vec[last.dst].m_data # nullptr) =>
        /\ heap[vec[last.dst].m_data].released = 0
        /\ Owners(vec[last.dst].m_data) = {last.dst}

C15_Step ==
    (last'.op \in {"copy_assign", "move_assign"} /\ last'.dst = last'.src) =>
        /\ last'.outcome = "returned"
        /\ heap' = heap
        /\ vec'[last'.dst] = vec[last'.dst]
        /\ Elems(vec'[last'.dst], heap') = Elems(vec[last'.dst], heap)
        /\ Indet(vec'[last'.dst], heap') = Indet(vec[last'.dst], heap)
        /\ C15_StillOwner'

\* C15: v = v and v = std::move(v) change nothing: v keeps its dimensions,
\* its elements and its buffer, which is not released and is owned by v
\* alone.
C15_SelfAssignNoOp == [][C15_Step]_vars

\* C15 witness: a = std::move(a) ended on a Vector that still holds [1, 2]
\* in a buffer not released
C15_Witness ==
    /\ last.op = "move_assign" /\ last.dst = "a" /\ last.src = "a"
    /\ vec["a"].m_dimensions = 2 /\ Elems(vec["a"], heap) = <<1, 2>>
    /\ heap[vec["a"].m_data].released = 0

\* ---------------------------------------------------------------------
\* magnitude
\* ---------------------------------------------------------------------

\* the reduction with the elements themselves in place of their squares
RECURSIVE SquaresLoop_NoSquare(_, _, _, _)
SquaresLoop_NoSquare(A, i, lst, sum) ==
    IF i < lst THEN SquaresLoop_NoSquare(A, i + 1, lst, sum + A[i + 1]) ELSE sum

\* std::transform_reduce(first, last, 0.0, std::plus<>(), value * value) over
\* the elements i..lst-1, vector.h:262-277: the squares are ints, their sum a
\* double, which holds the integers of the model exactly
RECURSIVE SquaresLoop(_, _, _, _)
SquaresLoop(A, i, lst, sum) ==
    IF i < lst THEN SquaresLoop(A, i + 1, lst, sum + (A[i + 1] * A[i + 1])) ELSE sum

\* value * value is an int, and the double sum is converted to
\* T sum_squares, vector.h:257: both are defined for values of int only
FitsInt(A, sum) ==
    /\ \A i \in DOMAIN A : A[i] * A[i] <= INT_MAX
    /\ sum <= INT_MAX

\* the integral part of std::sqrt(n)
ISqrt(n) == CHOOSE k \in 0..n : k * k <= n /\ (k + 1) * (k + 1) > n

\* what `return std::sqrt(sum_squares);` can return, vector.h:280: the root as
\* its integral part and whether a fractional part follows; any value after
\* an overflow
MagnitudeResults(A, sum) ==
    IF FitsInt(A, sum)
    THEN {[value |-> ISqrt(sum), frac |-> ISqrt(sum) * ISqrt(sum) # sum]}
    ELSE {[value |-> g, frac |-> f] : g \in Garbage, f \in BOOLEAN}

\* last after magnitude() returned r on the given path
MagnitudeDone(s, r, path) ==
    [Done("magnitude", s, "none") EXCEPT !.value = r.value, !.frac = r.frac,
                                         !.path = path]

\* double magnitude() const, vector.h:255-281
Magnitude(s) ==
    /\ Live(s) /\ ~call.active
    /\ IF UsesParallelPath(vec[s].m_dimensions)
       THEN /\ \E parts \in Partitionings(vec[s].m_dimensions) :
                  call' = [active |-> TRUE, op |-> "magnitude", dst |-> "none",
                           lhs |-> s, rhs |-> s,
                           m_dimensions |-> vec[s].m_dimensions, m_data |-> nullptr,
                           pending |-> parts, acc |-> 0]
            /\ last' = [NoLast EXCEPT !.op = "magnitude", !.dst = s,
                                      !.outcome = "running", !.path = "parallel"]
       ELSE /\ \E r \in MagnitudeResults(Elems(vec[s], heap),
                                        SquaresLoop(Elems(vec[s], heap), 0,
                                                    vec[s].m_dimensions, 0)) :
                  last' = MagnitudeDone(s, r, "sequential")
            /\ UNCHANGED call
    /\ UNCHANGED <<vec, heap>>

\* one partition of std::transform_reduce(std::execution::par, ...),
\* vector.h:262-268
MagnitudeStep(part) ==
    /\ call.active /\ call.op = "magnitude" /\ part \in call.pending
    /\ call' = [call EXCEPT !.pending = @ \ {part},
                            !.acc = @ + SquaresLoop(Elems(vec[call.lhs], heap),
                                                    part[1], part[2], 0)]
    /\ UNCHANGED <<vec, heap, last>>

\* the parallel reduction has returned: `return std::sqrt(sum_squares);`
MagnitudeReturn ==
    /\ call.active /\ call.op = "magnitude" /\ ParallelFinished(call)
    /\ \E r \in MagnitudeResults(Elems(vec[call.lhs], heap), call.acc) :
          last' = MagnitudeDone(call.lhs, r, "parallel")
    /\ call' = NoCall
    /\ UNCHANGED <<vec, heap>>

\* the Vectors of the magnitude tests, vector.t.cpp:298-316
TestVectors == {<<3, 4>>, <<6, 8>>, <<1, 2, 2>>, <<2, 3, 6>>}

\* Vector<int> a{...}: a list of Vals, a Vector of the tests, or one whose
\* squares leave the range of int
InitMagnitude ==
    /\ \E la \in ListsUpTo(MaxDim) \cup TestVectors \cup {<<INT_MAX, 1>>} :
          /\ heap = <<NewBufferFrom(la, {})>>
          /\ vec = [s \in Slots |->
                       IF s = "a" THEN [live |-> TRUE, m_dimensions |-> Len(la), m_data |-> 1]
                       ELSE NoVector]
    /\ last = NoLast
    /\ call = NoCall

NextMagnitude ==
    \/ Magnitude("a")
    \/ \E part \in call.pending : MagnitudeStep(part)
    \/ MagnitudeReturn

SpecMagnitude == InitMagnitude /\ [][NextMagnitude]_vars

\* the sum of the squares of the elements of the Vector magnitude() was
\* last called on
C16_SumOfSquares ==
    SumOfProducts(Elems(vec[last.dst], heap), Elems(vec[last.dst], heap),
                  vec[last.dst].m_dimensions)

\* the reduction over the first k partitions of 20 elements of group g, a
\* group being 400 elements, and over the first g groups
RECURSIVE C16_SumOfPartitions(_, _, _)
C16_SumOfPartitions(A, g, k) ==
    IF k = 0 THEN 0
    ELSE C16_SumOfPartitions(A, g, k - 1)
         + SquaresLoop(A, g * 400 + (k - 1) * 20, g * 400 + k * 20, 0)

RECURSIVE C16_SumOfGroups(_, _)
C16_SumOfGroups(A, g) ==
    IF g = 0 THEN 0 ELSE C16_SumOfGroups(A, g - 1) + C16_SumOfPartitions(A, g - 1, 20)

\* 6400 ones, reduced in 16 groups of 20 partitions, have magnitude 80
C16_ManyOnes == ISqrt(C16_SumOfGroups([i \in 1..6400 |-> 1], 16)) = 80

C16_Value ==
    /\ (last.op = "magnitude" /\ last.outcome = "returned"
            /\ FitsInt(Elems(vec[last.dst], heap), C16_SumOfSquares)) =>
          /\ last.value >= 0
          /\ last.value * last.value <= C16_SumOfSquares
          /\ (last.value + 1) * (last.value + 1) > C16_SumOfSquares
          /\ last.frac <=> (last.value * last.value # C16_SumOfSquares)
          /\ \A k \in 0..INT_MAX :
                (C16_SumOfSquares = k * k) => (last.value = k /\ ~last.frac)
          /\ (Elems(vec[last.dst], heap) = <<3, 4>>) => last.value = 5
          /\ (Elems(vec[last.dst], heap) = <<6, 8>>) => last.value = 10
          /\ (Elems(vec[last.dst], heap) = <<1, 2, 2>>) => last.value = 3
    /\ C16_ManyOnes

C16_Step ==
    /\ (last'.op = "magnitude") =>
          (vec' = vec /\ heap' = heap /\ last'.outcome \in {"returned", "running"})
    /\ C16_Value'

\* C16: magnitude() of an int Vector whose squares and their sum are in the
\* range of int returns the square root of the sum of the squares of all
\* elements: exactly k when that sum is k * k ([3,4] gives 5, [6,8] gives
\* 10, [1,2,2] gives 3, 6400 ones give 80), on the sequential and on the
\* parallel path alike, and no step of it changes the Vector.
C16_Magnitude == [][C16_Step]_vars

\* C16 witness: the parallel path returned exactly 3 for [1, 2, 2]
C16_Witness ==
    /\ last.op = "magnitude" /\ last.outcome = "returned" /\ last.path = "parallel"
    /\ Elems(vec["a"], heap) = <<1, 2, 2>>
    /\ last.value = 3 /\ ~last.frac

\* ---------------------------------------------------------------------
\* Iterator
\* ---------------------------------------------------------------------

\* Iterator begin(), vector.h:287-290: Iterator(&m_data[0])
VectorBegin(v) == [buf |-> v.m_data, off |-> 0]

\* end() that points to the last element
VectorEnd_LastElement(v) == [buf |-> v.m_data, off |-> v.m_dimensions - 1]

\* Iterator end(), vector.h:296-299: Iterator(&m_data[m_dimensions])
VectorEnd(v) == [buf |-> v.m_data, off |-> v.m_dimensions]

\* operator++ (m_ptr++), operator+ and += (m_ptr + n), operator- and -=
\* (m_ptr - n), vector.h:57-61 and :101-104
IteratorIncrement(it) == [it EXCEPT !.off = @ + 1]
IteratorPlus(it, n) == [it EXCEPT !.off = @ + n]
IteratorMinus(it, n) == [it EXCEPT !.off = @ - n]

\* difference_type operator-(const Iterator& other), vector.h:111-114
IteratorDifference(it, other) == it.off - other.off

\* the values T& operator*() can give, vector.h:47-50: the element m_ptr
\* points to; any value when m_ptr points to no element
DerefValues(it, h) ==
    IF it.buf # nullptr /\ it.off >= 0 /\ it.off < Len(h[it.buf].cells)
    THEN IF (it.off + 1) \in h[it.buf].indet THEN Garbage
         ELSE {h[it.buf].cells[it.off + 1]}
    ELSE Garbage

\* the operations that leave the caller with a cursor it
CursorOps == {"begin", "++", "*", "+", "-", "+=", "-="}
HasCursor == last.op \in CursorOps /\ last.outcome = "returned"

\* last after an operation on the cursor: the Iterator it holds now and the
\* index its history of steps and shifts adds up to
CursorAt(op, it, index) ==
    [NoLast EXCEPT !.op = op, !.dst = last.dst, !.outcome = "returned",
                   !.m_ptr = it, !.index = index]

\* pointer arithmetic is defined from the first element to one past the last
InBounds(it, v) == it.off >= 0 /\ it.off <= v.m_dimensions

\* auto it = v.begin();
CursorBegin(s) ==
    /\ Live(s) /\ ~call.active
    /\ last' = [NoLast EXCEPT !.op = "begin", !.dst = s, !.outcome = "returned",
                              !.m_ptr = VectorBegin(vec[s])]
    /\ UNCHANGED <<vec, heap, call>>

\* the step of `for (auto it = v.begin(); it != v.end(); ++it)`,
\* vector.t.cpp:414
CursorIncrement ==
    /\ HasCursor
    /\ last.m_ptr # VectorEnd(vec[last.dst])
    /\ InBounds(IteratorIncrement(last.m_ptr), vec[last.dst])
    /\ last' = CursorAt("++", IteratorIncrement(last.m_ptr), last.index + 1)
    /\ UNCHANGED <<vec, heap, call>>

\* *it
CursorDeref ==
    /\ HasCursor
    /\ \E x \in DerefValues(last.m_ptr, heap) :
          last' = [CursorAt("*", last.m_ptr, last.index) EXCEPT !.value = x]
    /\ UNCHANGED <<vec, heap, call>>

\* it = it + n; it = it - n; it += n; it -= n;
CursorShift(op, n) ==
    /\ HasCursor
    /\ LET it == IF op \in {"+", "+="} THEN IteratorPlus(last.m_ptr, n)
                 ELSE IteratorMinus(last.m_ptr, n)
       IN /\ InBounds(it, vec[last.dst])
          /\ last' = CursorAt(op, it, IF op \in {"+", "+="} THEN last.index + n
                                                            ELSE last.index - n)
    /\ UNCHANGED <<vec, heap, call>>

\* v.end() - v.begin()
EndMinusBegin(s) ==
    /\ Live(s) /\ ~call.active
    /\ last' = [Done("end-begin", s, "none") EXCEPT
                    !.value = IteratorDifference(VectorEnd(vec[s]), VectorBegin(vec[s]))]
    /\ UNCHANGED <<vec, heap, call>>

\* the Vector of the fixture VectorIteratorTest, vector.t.cpp:370-385
FixtureVector == <<0, 1, 2, 3, 4>>

\* the shifts given to +, -, += and -=
Shifts == 1..MaxDim

InitIter ==
    /\ \E la \in ListsUpTo(MaxDim) \cup {FixtureVector} :
          /\ heap = <<NewBufferFrom(la, {})>>
          /\ vec = [s \in Slots |->
                       IF s = "a" THEN [live |-> TRUE, m_dimensions |-> Len(la), m_data |-> 1]
                       ELSE NoVector]
    /\ last = NoLast
    /\ call = NoCall

\* a Vector built from a list, possibly moved into b, and cursors over both
NextIter ==
    \/ MoveCtor("b", "a")
    \/ \E s \in Operands : CursorBegin(s)
    \/ CursorIncrement
    \/ CursorDeref
    \/ \E op \in {"+", "-", "+=", "-="}, n \in Shifts : CursorShift(op, n)
    \/ \E s \in Operands : EndMinusBegin(s)

SpecIter == InitIter /\ [][NextIter]_vars

\* C17: a cursor started at begin() is at end() exactly when the steps and
\* shifts applied to it add up to dimensions() (for a zero-dimension or
\* moved-from Vector: at once), so ++ reaches end() after exactly
\* dimensions() steps; at index k < dimensions(), whether reached by ++,
\* + n, - n, += n or -= n, it dereferences to v[k]; end() - begin() is
\* dimensions().
C17_Cursor ==
    /\ HasCursor =>
          /\ last.index >= 0 /\ last.index <= vec[last.dst].m_dimensions
          /\ (last.m_ptr = VectorEnd(vec[last.dst]))
                <=> (last.index = vec[last.dst].m_dimensions)
          /\ (last.m_ptr = VectorBegin(vec[last.dst])) <=> (last.index = 0)
          /\ (last.op = "*" /\ last.index < vec[last.dst].m_dimensions) =>
                /\ ~IndexRejected(last.index, vec[last.dst].m_dimensions)
                /\ ReadValues(vec[last.dst], heap, last.index) = {last.value}
    /\ (last.op = "end-begin") => last.value = vec[last.dst].m_dimensions

\* C17 witness: the cursor over [0,1,2,3,4] dereferenced to 3 at index 3
C17_Witness ==
    /\ last.op = "*" /\ last.index = 3 /\ last.value = 3
    /\ Elems(vec[last.dst], heap) = FixtureVector

====
